---- MODULE Spec2Model ----
(***************************************************************************)
(* Model of the Lacework events connector                                  *)
(* (src/Lacework/lacework_module/lacework_connector.py):                   *)
(* LaceworkEventsTrigger.run, forward_next_batches and get_next_events,    *)
(* with the Cursor Store (context.json), the vendor API (list_alerts) and  *)
(* the Forwarder (push_events_to_intakes) as the environment.              *)
(*                                                                         *)
(* A list of records is kept run-length encoded: a run [ts, n] stands for  *)
(* n consecutive records whose startTime is ts.  Timestamps are small      *)
(* integers ordered as the RFC 3339 strings of the vendor are.             *)
(***************************************************************************)
EXTENDS Integers, Sequences, FiniteSets, TLC

\* ---------------------------------------------------------------- bounds
MaxTs == 2          \* timestamps are 1..MaxTs
MaxServed == 2      \* pages with records or a next page the vendor serves during run
MaxCycles == 2      \* cycles of run that are explored
TicksPerSecond == 2 \* resolution of the clock: time.time() is a float

\* ------------------------------------------------------- program constants
NoCursor == 0             \* cache.get("cursor") -> None
DefaultFrequency == 60    \* LaceworkConfiguration.frequency
DefaultChunkSize == 1000  \* LaceworkConfiguration.chunk_size
MinPaginationLimit == 1000 \* max(chunk_size, 1000)
Lookback == 300           \* int(time.time()) - 300

Timestamps == 1..MaxTs
Cursors == {NoCursor} \cup Timestamps
Frequencies == {DefaultFrequency}
ChunkSizes == {1, DefaultChunkSize}
\* ticks between the clock readings of line 67 and 78: 16 s, just under 60 s, 60 s, 80 s
Durations == {16 * TicksPerSecond, 60 * TicksPerSecond - 1, 60 * TicksPerSecond,
              80 * TicksPerSecond}

VARIABLES
    running,            \* Connector.running, cleared by the stop signal
    pc,                 \* position of the single thread of run
    frequency,          \* configuration.frequency
    chunk_size,         \* configuration.chunk_size
    persisted,          \* context.json["cursor"]
    has_more_messages,  \* local of forward_next_batches
    cursor,             \* local of forward_next_batches
    messages,           \* local of forward_next_batches: the buffer
    batch,              \* local of forward_next_batches: the fetched page
    exc,                \* the exception in flight or that left run ("none" if none)
    served,             \* vendor: pages with records or a next page served so far
    now,                \* time.time() in ticks, counted from the start of the cycle
    start,              \* local of run, in ticks
    duration,           \* local of run, in seconds
    incoming,           \* INCOMING_EVENTS counter
    outcoming,          \* OUTCOMING_EVENTS counter
    cycles,             \* number of cycles started
    startCursor,        \* the cursor the store held when the current cycle began
    startMetrics,       \* <<INCOMING_EVENTS, OUTCOMING_EVENTS>> when the current cycle began
    calls,              \* list_alerts calls of the current cycle, in order
    pages,              \* pages whose records the current cycle buffered, in order
    pushed,             \* push_events_to_intakes calls of the current cycle, in order
    saves,              \* cursor values the current cycle wrote to the store, in order
    sleeps,             \* time.sleep arguments of the current cycle, in order
    logs,               \* messages run logged since the current cycle began, in order
    origin              \* what came before the current cycle: the construction of the
                        \* process, a cycle of it, or an interruption of the last process

vars == <<running, pc, frequency, chunk_size, persisted, has_more_messages, cursor,
          messages, batch, exc, served, now, start, duration, incoming, outcoming, cycles,
          startCursor, startMetrics, calls, pages, pushed, saves, sleeps, logs, origin>>

config == <<frequency, chunk_size>>
locals == <<has_more_messages, cursor, messages, batch>>
clock == <<now, start, duration>>
metrics == <<incoming, outcoming>>
history == <<startCursor, startMetrics, calls, pages, pushed, saves, sleeps>>

\* ---------------------------------------------------------------- helpers
Rec(t, k) == [ts |-> t, n |-> k]

RECURSIVE Count(_)
\* len() of a run-length encoded list
Count(runs) == IF runs = <<>> THEN 0 ELSE Head(runs).n + Count(Tail(runs))

RECURSIVE MaxStartTime(_)
\* max(item.get("startTime") for item in ...) over a non-empty list
MaxStartTime(runs) ==
    IF Len(runs) = 1 THEN runs[1].ts
    ELSE LET m == MaxStartTime(Tail(runs))
         IN IF runs[1].ts > m THEN runs[1].ts ELSE m

\* every record is dumped twice
DumpsDoubled(run) == [json |-> run.ts, n |-> 2 * run.n]

\* orjson.dumps(message).decode("utf-8"): the JSON text of each record of the run
Dumps(run) == [json |-> run.ts, n |-> run.n]

RECURSIVE DumpsAll(_)
DumpsAll(runs) == IF runs = <<>> THEN <<>> ELSE <<Dumps(Head(runs))>> \o DumpsAll(Tail(runs))

\* pagination_limit (cached_property)
pagination_limit == IF chunk_size > MinPaginationLimit THEN chunk_size ELSE MinPaginationLimit

\* int() of a non-negative float given in ticks: the whole seconds
ToInt(ticks) == ticks \div TicksPerSecond

\* the default window starts at the current time
ParametersWithoutLookback(c) ==
    {<<"limit", pagination_limit>>} \cup
    (IF c # NoCursor THEN {<<"cursor", c>>} ELSE {<<"startTime", ToInt(now)>>})

\* line 91-100: the parameters get_next_events gives to list_alerts, as a set of
\* (key, value)
Parameters(c) ==
    {<<"limit", pagination_limit>>} \cup
    (IF c # NoCursor THEN {<<"cursor", c>>} ELSE {<<"startTime", ToInt(now) - Lookback>>})

\* the record lists the vendor may serve
AllData ==
    {<<>>}
    \cup {<<Rec(t, 1)>> : t \in Timestamps}
    \cup {<<Rec(MaxTs, 1), Rec(1, 1)>>}
    \cup {<<Rec(MaxTs, 1000)>>}

\* well-formed vendor: nothing older than the cursor asked for, at most limit records
PageData(c) ==
    {d \in AllData : Count(d) <= pagination_limit /\ \A i \in 1..Len(d) : d[i].ts >= c}

NoPage == [data |-> <<>>, next |-> FALSE]

\* what a list_alerts call may answer
Responses(c) ==
    {[status |-> "HTTPError", page |-> NoPage], [status |-> "not_ok", page |-> NoPage]}
    \cup {[status |-> "ok", page |-> [data |-> d, next |-> nx]] :
            d \in PageData(c), nx \in BOOLEAN}

\* the page consumes the vendor's stock
Consumes(page) == page.data # <<>> \/ page.next

PushOutcomes == {"ok", "HTTPError", "Exception"}

\* ------------------------------------------------------------------- Init
Init ==
    /\ running = TRUE
    /\ pc = "start"
    /\ frequency \in Frequencies
    /\ chunk_size \in ChunkSizes
    /\ persisted \in Cursors
    /\ has_more_messages = FALSE
    /\ cursor = NoCursor
    /\ messages = <<>>
    /\ batch = NoPage
    /\ exc = "none"
    /\ served = 0
    /\ now = 0
    /\ start = 0
    /\ duration = 0
    /\ incoming = 0
    /\ outcoming = 0
    /\ cycles = 0
    /\ startCursor = NoCursor
    /\ startMetrics = <<0, 0>>
    /\ calls = <<>>
    /\ pages = <<>>
    /\ pushed = <<>>
    /\ saves = <<>>
    /\ sleeps = <<>>
    /\ logs = <<>>
    /\ origin = "construction"

\* ---------------------------------------------------------------- actions
\* the stop signal
Stop ==
    /\ running
    /\ running' = FALSE
    /\ UNCHANGED <<pc, config, persisted, locals, exc, served, clock, metrics, cycles,
                   history, logs, origin>>

\* run line 63: the "has started" log
Started ==
    /\ pc = "start"
    /\ pc' = "while"
    /\ logs' = Append(logs, "has started")
    /\ UNCHANGED <<running, config, persisted, locals, exc, served, clock, metrics,
                   cycles, history, origin>>

\* the cursor of the store is not read and the cycle starts from no cursor
LoadedNothing == NoCursor

\* line 134: cursor = self.cursor
LoadedCursor == persisted

\* the buffer starts as the last cycle left it
KeptMessages == messages

\* line 136: messages = []
NewMessages == <<>>

\* run line 66-67 and forward_next_batches line 133-136: while self.running,
\* start = time.time() (the clock is counted from this reading, and duration, which
\* line 78 assigns before any use, is cleared), the locals
EnterCycle ==
    /\ pc = "while"
    /\ running
    /\ cycles < MaxCycles
    /\ now' = 0
    /\ start' = 0
    /\ duration' = 0
    /\ has_more_messages' = TRUE
    /\ cursor' = LoadedCursor
    /\ messages' = NewMessages
    /\ batch' = NoPage
    /\ cycles' = cycles + 1
    /\ startCursor' = persisted
    /\ startMetrics' = <<incoming, outcoming>>
    /\ calls' = <<>>
    /\ pages' = <<>>
    /\ pushed' = <<>>
    /\ saves' = <<>>
    /\ sleeps' = <<>>
    /\ pc' = "loop"
    /\ logs' = <<>>
    /\ UNCHANGED <<running, config, persisted, exc, served, metrics, origin>>

\* run line 66 and 86-87: the loop ends, finally logs "has stopped"
LeaveRun ==
    /\ pc = "while"
    /\ ~running
    /\ pc' = "stopped"
    /\ logs' = Append(logs, "has stopped")
    /\ UNCHANGED <<running, config, persisted, locals, exc, served, clock, metrics,
                   cycles, history, origin>>

\* the paging loop goes on whatever the running flag is
LoopIgnoresRunning == has_more_messages

\* line 137: while has_more_messages and self.running
LoopGoesOn == has_more_messages /\ running

\* forward_next_batches line 137-138
LoopTest ==
    /\ pc = "loop"
    /\ IF LoopGoesOn
       THEN /\ has_more_messages' = FALSE
            /\ pc' = "fetch"
       ELSE /\ pc' = "save"
            /\ UNCHANGED has_more_messages
    /\ UNCHANGED <<running, config, persisted, cursor, messages, batch, exc, served,
                   clock, metrics, cycles, history, logs, origin>>

\* one list_alerts call as the cycle's log keeps it
Call(kind, c, status) == [kind |-> kind, parameters |-> Parameters(c), status |-> status]

\* line 140-142: batch = self.get_next_events(cursor); if batch is None: break
Fetch ==
    /\ pc = "fetch"
    /\ \E resp \in Responses(cursor) :
        /\ Consumes(resp.page) => served < MaxServed
        /\ served' = IF Consumes(resp.page) THEN served + 1 ELSE served
        /\ calls' = Append(calls, Call("fetch", cursor, resp.status))
        /\ \/ /\ resp.status = "HTTPError"      \* list_alerts raises
              /\ exc' = "HTTPError"
              /\ pc' = "except"
              /\ UNCHANGED batch
           \/ /\ resp.status = "not_ok"         \* get_next_events returns None
              /\ batch' = NoPage
              /\ pc' = "save"
              /\ UNCHANGED exc
           \/ /\ resp.status = "ok"             \* get_next_events returns response.json()
              /\ batch' = resp.page
              /\ pc' = "paging"
              /\ UNCHANGED exc
    /\ UNCHANGED <<running, config, persisted, has_more_messages, cursor, messages,
                   clock, metrics, cycles, startCursor, startMetrics, pages, pushed,
                   saves, sleeps, logs, origin>>

\* line 144: the page announces a next page
HasNextPage(page) == page.next

\* line 144-146, no next page announced
NoNextPage ==
    /\ pc = "paging"
    /\ ~HasNextPage(batch)
    /\ pc' = "collect"
    /\ UNCHANGED <<running, config, persisted, locals, exc, served, clock, metrics,
                   cycles, history, logs, origin>>

\* line 145-146: has_more_messages = True, (a non-empty tuple, true in the while
\* test) and cursor = max(... for item in self.get_next_events(cursor).data): a
\* second list_alerts call with the same cursor.  get_next_events returns None
\* (no attribute data) or response.json(), built by LaceworkApiClient: a dict has
\* no attribute data, an object exposing its fields as attributes has.
Refetch ==
    /\ pc = "paging"
    /\ HasNextPage(batch)
    /\ has_more_messages' = TRUE
    /\ \E resp \in Responses(cursor) :
        /\ calls' = Append(calls, Call("refetch", cursor, resp.status))
        /\ \/ /\ resp.status = "HTTPError"      \* list_alerts raises
              /\ exc' = "HTTPError"
              /\ pc' = "except"
              /\ UNCHANGED cursor
           \/ /\ resp.status = "not_ok"         \* None.data
              /\ exc' = "AttributeError"
              /\ pc' = "except"
              /\ UNCHANGED cursor
           \/ /\ resp.status = "ok"             \* dict.data
              /\ exc' = "AttributeError"
              /\ pc' = "except"
              /\ UNCHANGED cursor
           \/ /\ resp.status = "ok"             \* max() of an empty sequence
              /\ resp.page.data = <<>>
              /\ exc' = "ValueError"
              /\ pc' = "except"
              /\ UNCHANGED cursor
           \/ /\ resp.status = "ok"
              /\ resp.page.data # <<>>
              /\ cursor' = MaxStartTime(resp.page.data)
              /\ pc' = "collect"
              /\ UNCHANGED exc
    /\ UNCHANGED <<running, config, persisted, messages, batch, served, clock, metrics,
                   cycles, startCursor, startMetrics, pages, pushed, saves, sleeps,
                   logs, origin>>

\* line 148-156: count the items and append their JSON texts to messages
Collect ==
    /\ pc = "collect"
    /\ incoming' = incoming + Count(batch.data)
    /\ messages' = messages \o DumpsAll(batch.data)
    /\ pages' = Append(pages, batch)
    /\ pc' = "flush"
    /\ UNCHANGED <<running, config, persisted, has_more_messages, cursor, batch, exc,
                   served, clock, outcoming, cycles, startCursor, startMetrics, calls,
                   pushed, saves, sleeps, logs, origin>>

\* the loop flushes in every iteration
FlushAlways == TRUE

\* line 158: if len(messages) > self.pagination_limit
FlushNeeded == Count(messages) > pagination_limit

\* the call hands the records of the last page only
PushLastPage(status) == [events |-> DumpsAll(batch.data), status |-> status]

\* one push_events_to_intakes call as the cycle's log keeps it
Push(status) == [events |-> messages, status |-> status]

\* line 158-162: the flush inside the loop
Flush ==
    /\ pc = "flush"
    /\ IF FlushNeeded
       THEN /\ outcoming' = outcoming + Count(messages)
            /\ \E st \in PushOutcomes :
                /\ pushed' = Append(pushed, Push(st))
                /\ IF st = "ok"
                   THEN /\ messages' = <<>>
                        /\ pc' = "loop"
                        /\ UNCHANGED exc
                   ELSE /\ exc' = st
                        /\ pc' = "except"
                        /\ UNCHANGED messages
       ELSE /\ pc' = "loop"
            /\ UNCHANGED <<outcoming, pushed, messages, exc>>
    /\ UNCHANGED <<running, config, persisted, has_more_messages, cursor, batch,
                   served, clock, incoming, cycles, startCursor, startMetrics, calls,
                   pages, saves, sleeps, logs, origin>>

\* the cursor the cycle began with is written back
SavedStartCursor == startCursor

\* line 164: the value written to the store
SavedCursor == cursor

\* line 164: self.cursor = cursor
Save ==
    /\ pc = "save"
    /\ persisted' = SavedCursor
    /\ saves' = Append(saves, SavedCursor)
    /\ pc' = "final"
    /\ UNCHANGED <<running, config, locals, exc, served, clock, metrics, cycles,
                   startCursor, startMetrics, calls, pages, pushed, sleeps, logs,
                   origin>>

\* the final flush is skipped once the stop signal has come
FinalFlushWhileRunning == messages # <<>> /\ running

\* the final flush is made whatever the buffer holds
FinalFlushAlways == TRUE

\* line 166: if messages
FinalFlushNeeded == messages # <<>>

\* line 166-171: the final flush, or "No messages to forward"
FinalFlush ==
    /\ pc = "final"
    /\ IF FinalFlushNeeded
       THEN /\ outcoming' = outcoming + Count(messages)
            /\ \E st \in PushOutcomes :
                /\ pushed' = Append(pushed, Push(st))
                /\ IF st = "ok"
                   THEN /\ pc' = "measure"
                        /\ UNCHANGED exc
                   ELSE /\ exc' = st
                        /\ pc' = "except"
       ELSE /\ pc' = "measure"
            /\ UNCHANGED <<outcoming, pushed, exc>>
    /\ UNCHANGED <<running, config, persisted, locals, served, clock, incoming, cycles,
                   startCursor, startMetrics, calls, pages, saves, sleeps, logs,
                   origin>>

\* every exception is handled as an HTTP error is
CatchesEverything(e) == TRUE

\* run line 71: except (HTTPError, BaseHTTPError)
IsHTTPError(e) == e = "HTTPError"

\* run line 71-72: the HTTP error is logged and the cycle goes on to the sleep step
CatchHTTPError ==
    /\ pc = "except"
    /\ IsHTTPError(exc)
    /\ exc' = "none"
    /\ pc' = "measure"
    /\ logs' = Append(logs, "Failed to get next batch of events")
    /\ UNCHANGED <<running, config, persisted, locals, served, clock, metrics, cycles,
                   history, origin>>

\* run line 73-75 and 86-87: any other exception is logged and raised again; finally
\* logs "has stopped" and the exception leaves run
Reraise ==
    /\ pc = "except"
    /\ ~IsHTTPError(exc)
    /\ pc' = "stopped"
    /\ logs' = logs \o <<"An unknown exception occurred", "has stopped">>
    /\ UNCHANGED <<running, config, persisted, locals, exc, served, clock, metrics,
                   cycles, history, origin>>

\* sleep also when nothing of the frequency remains
SleepWhenNotNegative(delta_sleep) == delta_sleep >= 0

\* line 78: duration = int(time.time() - start)
Duration(end) == ToInt(end - start)

\* line 84: if delta_sleep > 0
ShouldSleep(delta_sleep) == delta_sleep > 0

\* run line 78-85: the duration of the cycle and the sleep of the remaining time
Measure ==
    /\ pc = "measure"
    /\ \E d \in Durations :
        LET end == now + d                  \* time.time() of line 78
            delta_sleep == frequency - Duration(end)
        IN /\ duration' = Duration(end)
           /\ IF ShouldSleep(delta_sleep)
              THEN /\ sleeps' = Append(sleeps, delta_sleep)
                   /\ now' = end + delta_sleep * TicksPerSecond
              ELSE /\ now' = end
                   /\ UNCHANGED sleeps
    /\ pc' = "while"
    /\ origin' = "cycle"
    /\ UNCHANGED <<running, config, persisted, locals, exc, served, start, metrics,
                   cycles, startCursor, startMetrics, calls, pages, pushed, saves,
                   logs>>

\* the process is interrupted between line 164 and line 166, right after the cursor
\* was written, and a new process is constructed (line 35-37): context.json keeps
\* the cursor, everything else starts afresh
Interrupt ==
    /\ pc = "final"
    /\ cycles < MaxCycles
    /\ origin' = "interruption"
    /\ running' = TRUE
    /\ pc' = "start"
    /\ has_more_messages' = FALSE
    /\ cursor' = NoCursor
    /\ messages' = <<>>
    /\ batch' = NoPage
    /\ exc' = "none"
    /\ now' = 0
    /\ start' = 0
    /\ duration' = 0
    /\ incoming' = 0
    /\ outcoming' = 0
    /\ startCursor' = NoCursor
    /\ startMetrics' = <<0, 0>>
    /\ calls' = <<>>
    /\ pages' = <<>>
    /\ pushed' = <<>>
    /\ saves' = <<>>
    /\ sleeps' = <<>>
    /\ logs' = <<>>
    /\ UNCHANGED <<config, persisted, served, cycles>>

Next ==
    \/ Stop \/ Started \/ EnterCycle \/ LeaveRun
    \/ LoopTest \/ Fetch \/ NoNextPage \/ Refetch \/ Collect \/ Flush
    \/ Save \/ FinalFlush \/ CatchHTTPError \/ Reraise \/ Measure
    \/ Interrupt

Spec == Init /\ [][Next]_vars

\* the steps of the thread of run: each call it makes (list_alerts,
\* push_events_to_intakes, sleep) returns or raises, and the thread goes on
RunStep ==
    \/ Started \/ EnterCycle \/ LeaveRun
    \/ LoopTest \/ Fetch \/ NoNextPage \/ Refetch \/ Collect \/ Flush
    \/ Save \/ FinalFlush \/ CatchHTTPError \/ Reraise \/ Measure

LiveSpec == Spec /\ WF_vars(RunStep)
\* ------------------------------------------------------------- properties
Last(seq) == seq[Len(seq)]

RECURSIVE Forwarded(_)
\* the records handed to the Forwarder by the calls of a log, in call order
Forwarded(log) == IF log = <<>> THEN <<>> ELSE Head(log).events \o Forwarded(Tail(log))

RECURSIVE Fetched(_)
\* the JSON texts of the records of the pages of a log, in fetch order
Fetched(log) == IF log = <<>> THEN <<>> ELSE DumpsAll(Head(log).data) \o Fetched(Tail(log))

\* the cycle is over: run is at its sleep step, back at its while test, or has ended
CycleOver == cycles > 0 /\ pc \in {"measure", "while", "stopped"}

AllPushesOk == \A i \in 1..Len(pushed) : pushed[i].status = "ok"

Larger(a, b) == IF a > b THEN a ELSE b

\* C1: in a cycle the cursor is written to the store only after every batch of the
\* cycle, the final flush included, has been handed to the Forwarder: in no state has
\* the cycle written the cursor while records it fetched are buffered and not handed.
C1_CursorWrittenAfterFlushes ==
    ~(pc = "final" /\ saves # <<>> /\ messages # <<>>)

\* C2: the cursor of the store never regresses in a cycle: in every state it is at
\* least the cursor the store held when the cycle began (the vendor serving nothing
\* older than the cursor it is asked for).
C2_CursorMonotonic == persisted >= startCursor

\* a cycle that began from a stored cursor and wrote a later one
C2_Witness ==
    /\ CycleOver
    /\ saves # <<>>
    /\ startCursor # NoCursor
    /\ persisted > startCursor

\* the ticks slept by the sleep call of the cycle
Slept == IF sleeps = <<>> THEN 0 ELSE sleeps[1] * TicksPerSecond

\* the ticks the cycle lasted, from line 67 to line 78
Elapsed == (now - start) - Slept

\* C3 as stated: a cycle that ends without an unexpected exception and lasted d
\* seconds has called sleep exactly once, with frequency - d, when d < frequency, and
\* not at all when d >= frequency.
C3_SleepsRemainder ==
    (origin = "cycle" /\ pc = "while") =>
        IF Elapsed < frequency * TicksPerSecond
        THEN Len(sleeps) = 1
             /\ sleeps[1] * TicksPerSecond = frequency * TicksPerSecond - Elapsed
        ELSE sleeps = <<>>

\* C3 amended: a cycle that ends without an unexpected exception and lasted d seconds
\* has called sleep exactly once, with frequency - int(d), when d < frequency, and not
\* at all when d >= frequency, and run is back at its while test.
C3_SleepBudget ==
    (origin = "cycle" /\ pc = "while") =>
        /\ exc = "none"
        /\ duration = ToInt(Elapsed)
        /\ sleeps = IF Elapsed < frequency * TicksPerSecond
                    THEN <<frequency - ToInt(Elapsed)>>
                    ELSE <<>>

\* a cycle that made a list_alerts call, lasted a fraction of a second less than the
\* frequency and slept one whole second
C3_Witness ==
    /\ origin = "cycle" /\ pc = "while" /\ calls # <<>>
    /\ Elapsed = frequency * TicksPerSecond - 1
    /\ sleeps = <<1>>

\* C4: when the first page of a cycle announces a next page and the fetch of the
\* second page is answered by a non-2xx response, the cycle ends with the cursor of
\* the store not beyond the watermark of page 1 and with exactly the records of
\* page 1 handed to the Forwarder.
C4_FirstPage == IF pages # <<>> THEN pages[1] ELSE batch
C4_SecondPageFetchFailed ==
    /\ cycles > 0 /\ pc \in {"measure", "while", "stopped"}
    /\ Len(calls) >= 2
    /\ calls[1].status = "ok"
    /\ Last(calls).status = "not_ok"
    /\ \A i \in 2..(Len(calls) - 1) : calls[i].kind = "refetch" /\ calls[i].status = "ok"
C4_ErrorShortCircuit ==
    C4_SecondPageFetchFailed =>
        /\ Forwarded(pushed) = DumpsAll(C4_FirstPage.data)
        /\ C4_FirstPage.data # <<>> =>
               persisted <= Larger(startCursor, MaxStartTime(C4_FirstPage.data))
        /\ C4_FirstPage.data = <<>> => persisted = startCursor

\* C5: an HTTP error (list_alerts raising HTTPError or answering non-2xx, or the
\* Forwarder raising HTTPError) never terminates the scheduler: run does not end by
\* an exception when the last call of the cycle was answered by such an error.
C5_HTTPErrorNeverTerminates ==
    ~(/\ pc = "stopped" /\ exc # "none"
      /\ AllPushesOk
      /\ calls # <<>>
      /\ Last(calls).status \in {"not_ok", "HTTPError"})

\* C6: when a call to the Forwarder fails, in the flush of the loop or in the final
\* flush, the cursor of the store is not beyond any record of the failed batch, so
\* that the next cycle fetches those records again.
C6_ForwarderFailureKeepsCursor ==
    (pushed # <<>> /\ Last(pushed).status # "ok") =>
        \A i \in 1..Len(Last(pushed).events) : persisted <= Last(pushed).events[i].json

\* C7: when a page yields more records than chunk_size, the iteration that fetched
\* it makes one Forwarder call carrying all the buffered records and leaves the
\* buffer empty before the next page is fetched.
C7_FlushBoundary ==
    (pc = "loop" /\ pages # <<>> /\ Count(Last(pages).data) > chunk_size) =>
        /\ messages = <<>>
        /\ pushed # <<>>
        /\ Last(pushed).status = "ok"
        /\ Forwarded(pushed) = Fetched(pages)

\* C8: a cycle begins and a page is fetched only after a test that found the running
\* flag set, and when forward_next_batches leaves its final flush with the flag
\* cleared, every record the cycle buffered has been handed to the Forwarder.
C8_GracefulShutdown ==
    [][ /\ (pc = "while" /\ pc' = "loop") => running
        /\ (pc # "fetch" /\ pc' = "fetch") => (pc = "loop" /\ running)
        /\ (pc = "final" /\ pc' # "final" /\ ~running) =>
               Forwarded(pushed') = Fetched(pages')
      ]_vars

\* the stop signal ended the loop of a cycle that expected more pages, and the
\* records it had buffered were handed to the Forwarder
C8_Witness ==
    /\ pc = "measure" /\ ~running
    /\ has_more_messages
    /\ pushed # <<>>
    /\ Forwarded(pushed) = Fetched(pages)

\* C9: a cycle whose first page is fetched successfully, holds no record and
\* announces no next page makes no Forwarder call and leaves the cursor of the
\* store as it was before the cycle.
C9_NoDataCycle ==
    /\ cycles > 0
    /\ Len(calls) = 1
    /\ calls[1].status = "ok"
    /\ batch = [data |-> <<>>, next |-> FALSE]
    /\ pc \in {"measure", "while", "stopped"}
C9_NoDataNoForward ==
    C9_NoDataCycle => (pushed = <<>> /\ persisted = startCursor /\ exc = "none")

\* a cycle over after one empty page without a next page
C9_Witness == C9_NoDataCycle /\ pc = "while" /\ saves # <<>>

\* C10: when the store holds no cursor the cycle does not fail and its first fetch
\* carries no cursor but a startTime 300 seconds before the current time; when the
\* store holds a cursor the first fetch carries that cursor and no startTime.
C10_MissingCursorFallback ==
    (cycles > 0 /\ calls # <<>>) =>
        /\ startCursor = NoCursor =>
              /\ calls[1].parameters =
                    {<<"limit", pagination_limit>>, <<"startTime", ToInt(start) - 300>>}
              /\ (Len(calls) = 1 /\ calls[1].status = "ok" /\ pushed = <<>>) =>
                    exc = "none"
        /\ startCursor # NoCursor =>
              calls[1].parameters =
                    {<<"limit", pagination_limit>>, <<"cursor", startCursor>>}

\* a cycle that began without a cursor, fetched a page with records and ended
C10_Witness ==
    /\ startCursor = NoCursor
    /\ pc = "measure"
    /\ exc = "none"
    /\ pages # <<>> /\ pages[1].data # <<>>

\* C11: an exception that is not an HTTP error, raised during a cycle, is logged and
\* raised again out of run: the step of run that follows it ends run with the
\* exception, after the logs "An unknown exception occurred" and "has stopped" and
\* without a sleep in that cycle, and once run has ended no cycle starts, nothing is
\* fetched, handed to the Forwarder or written to the store and nothing sleeps.
C11_UnexpectedExceptionReraised ==
    [][ /\ (pc = "except" /\ exc \notin {"none", "HTTPError"} /\ pc' # pc) =>
               /\ pc' = "stopped"
               /\ exc' = exc
               /\ logs' = logs \o <<"An unknown exception occurred", "has stopped">>
               /\ sleeps' = <<>>
        /\ pc = "stopped" =>
               /\ pc' = "stopped"
               /\ UNCHANGED <<cycles, calls, pushed, saves, sleeps, persisted, exc, logs>>
      ]_vars

\* run ended by the exception the Forwarder raised, logged and without a sleep
C11_Witness ==
    /\ pc = "stopped"
    /\ exc = "Exception"
    /\ pushed # <<>> /\ Last(pushed).status = "Exception"
    /\ sleeps = <<>>
    /\ Last(logs) = "has stopped"

\* the records of a list, as a set
Range(seq) == {seq[i] : i \in 1..Len(seq)}

\* forward_next_batches has returned without an exception: run is at its sleep step
\* and has logged no exception in the cycle
CycleEndedWithoutException == pc = "measure" /\ logs = <<>>

\* C12: a cycle that starts from the cursor C of the store does the same whatever
\* came before it, a cycle of the same process or an interruption right after C was
\* written: its first fetch asks for C, it buffers and forwards no record but those of
\* the pages it fetched, none of them positioned before C, and when it ends without
\* an exception the set of records it forwarded is the set of records it fetched.
C12_IdempotentResumption ==
    (pc \notin {"start", "while"} /\ startCursor # NoCursor) =>
        /\ calls # <<>> =>
               calls[1].parameters =
                   {<<"limit", pagination_limit>>, <<"cursor", startCursor>>}
        /\ Range(messages) \cup Range(Forwarded(pushed)) \subseteq Range(Fetched(pages))
        /\ \A r \in Range(Forwarded(pushed)) : r.json >= startCursor
        /\ CycleEndedWithoutException =>
               Range(Forwarded(pushed)) = Range(Fetched(pages))

\* the cycle that follows an interruption right after the cursor was written has
\* fetched records positioned after that cursor and forwarded them
C12_Witness ==
    /\ origin = "interruption"
    /\ CycleEndedWithoutException
    /\ startCursor # NoCursor
    /\ pages # <<>>
    /\ \E r \in Range(Forwarded(pushed)) : r.json > startCursor

\* C13: once a fetched page that holds records has been taken in, the last page of
\* the cycle included, the working cursor is the maximum startTime of the records of
\* that page, and the cursor written by a cycle that ends without an exception is
\* the maximum startTime of the last page with records it fetched.
C13_MaxStartTimeBecomesCursor ==
    /\ (pc = "flush" /\ batch.data # <<>>) => cursor = MaxStartTime(batch.data)
    /\ (CycleEndedWithoutException /\ pages # <<>> /\ Last(pages).data # <<>>) =>
           persisted = MaxStartTime(Last(pages).data)

\* C14: each iteration of the paging loop makes one list_alerts call: in a cycle that
\* began from a stored cursor no two list_alerts calls carry the same parameters, so
\* that no page is asked for twice with the same cursor.
C14_OneFetchPerIteration ==
    startCursor # NoCursor =>
        \A i, j \in 1..Len(calls) : i < j => calls[i].parameters # calls[j].parameters

\* C15: no call to push_events_to_intakes, in the flush of the loop or in the final
\* flush, carries more records than chunk_size.
C15_BatchBounded ==
    \A i \in 1..Len(pushed) : Count(pushed[i].events) <= chunk_size

\* C16 as stated: once the running flag is cleared no cycle starts and no list_alerts
\* call is made any more.
C16_NoFetchOnceStopped ==
    [][ ~running => /\ ~(pc = "while" /\ pc' = "loop")
                    /\ Len(calls') <= Len(calls)
      ]_vars

\* C16 amended: once the running flag is cleared no cycle starts and no iteration of
\* the paging loop begins (the iteration in progress still makes its list_alerts
\* calls), and run returns, every call of its thread returning, unless a new
\* process has set the flag again.
C16_CancellationTerminates ==
    /\ [][ ~running => /\ ~(pc = "while" /\ pc' = "loop")
                       /\ ~(pc = "loop" /\ pc' = "fetch")
         ]_vars
    /\ (~running ~> (pc = "stopped" \/ running))

\* run has returned without an exception after the stop signal ended the paging loop
\* of a cycle that had been told of a next page
C16_Witness ==
    /\ pc = "stopped"
    /\ ~running
    /\ exc = "none"
    /\ has_more_messages
    /\ calls # <<>>
    /\ Last(logs) = "has stopped"

\* C17: when forward_next_batches returns without an exception, the records handed
\* to the Forwarder, concatenated over the calls of the cycle in call order, are the
\* records of the pages the cycle fetched and took in, concatenated in fetch order:
\* none dropped, duplicated or reordered.
C17_ForwardedIsFetched ==
    CycleEndedWithoutException => Forwarded(pushed) = Fetched(pages)

\* a cycle that took in two different pages with records and forwarded them in order
C17_Witness ==
    /\ CycleEndedWithoutException
    /\ Len(pages) = 2
    /\ pages[1].data # <<>> /\ pages[2].data # <<>> /\ pages[1].data # pages[2].data
    /\ Forwarded(pushed) = DumpsAll(pages[1].data) \o DumpsAll(pages[2].data)

\* C18: the store is written once, with the working cursor, in a cycle whose paging
\* loop ends by its test or by the break of a non-2xx answer, and before that write
\* the store is as the cycle found it; when an exception is raised inside the paging
\* loop, by a list_alerts call or by the flush of the loop, the cycle has not written
\* the store, the store is as the cycle found it, the buffer is not handed to the
\* Forwarder, and nothing is written or forwarded in the rest of the cycle.
C18_CursorWrittenOnce ==
    [][ /\ (pc # "save" /\ pc' = "save") =>
               (pc \in {"loop", "fetch"} /\ saves = <<>> /\ persisted = startCursor)
        /\ (pc = "save" /\ pc' # "save") =>
               (pc' = "final" /\ saves' = <<cursor>> /\ persisted' = cursor)
        /\ (pc = "final" /\ pc' \in {"measure", "except"}) =>
               (Len(saves) = 1 /\ UNCHANGED <<saves, persisted>>)
        /\ (pc \in {"fetch", "paging", "flush"} /\ pc' = "except") =>
               /\ saves' = <<>>
               /\ persisted' = startCursor
               /\ messages' = messages
               /\ pc # "flush" => pushed' = pushed
        /\ pc \in {"except", "measure"} => UNCHANGED <<saves, persisted, pushed, messages>>
      ]_vars

\* an HTTP error of the fetch of the second page ended a cycle that had buffered the
\* records of the first: the store is as it was and nothing was forwarded
C18_Witness ==
    /\ pc = "measure"
    /\ logs = <<"Failed to get next batch of events">>
    /\ Last(calls).status = "HTTPError" /\ Last(calls).kind = "fetch"
    /\ messages # <<>>
    /\ saves = <<>>
    /\ pushed = <<>>
    /\ persisted = startCursor

\* C19: every call to push_events_to_intakes, in the loop or in the final flush,
\* carries at least one record.
C19_NeverEmptyBatch ==
    \A i \in 1..Len(pushed) : pushed[i].events # <<>> /\ Count(pushed[i].events) >= 1

\* the loop flushed a buffer beyond the pagination limit, and the final flush, the
\* buffer being empty, made no call
C19_Witness ==
    /\ CycleEndedWithoutException
    /\ messages = <<>>
    /\ Len(pushed) = 1
    /\ Count(pushed[1].events) > pagination_limit

\* C20: the OUTCOMING_EVENTS counter never exceeds the INCOMING_EVENTS counter, and
\* when forward_next_batches returns without an exception both have grown by the
\* same amount since the cycle began.
C20_OutcomingWithinIncoming ==
    /\ outcoming <= incoming
    /\ CycleEndedWithoutException =>
           incoming - startMetrics[1] = outcoming - startMetrics[2]

\* a cycle that began with records counted in and not out, left by a cycle an HTTP
\* error ended, counted records in and as many out
C20_Witness ==
    /\ CycleEndedWithoutException
    /\ startMetrics[1] > startMetrics[2]
    /\ incoming > startMetrics[1]
    /\ outcoming > startMetrics[2]
====
